---- MODULE Spec2Model ----
(***************************************************************************)
(* Jlang: lexer (gettok), recursive-descent / operator-precedence parser,  *)
(* AST, lowering to IR and the MainLoop driver of src/jlang.cpp.           *)
(*                                                                         *)
(* Characters and tokens are C ints, as in the source: a character is its  *)
(* ASCII code, EOF is -1 and the Token enumerators are negative.  Strings  *)
(* (IdentifierStr, function and parameter names) are sequences of codes.   *)
(***************************************************************************)
EXTENDS Integers, Sequences, FiniteSets, TLC

\* ------------------------------------------------------------------------
\* Character codes
\* ------------------------------------------------------------------------
Letters == <<"a","b","c","d","e","f","g","h","i","j","k","l","m",
             "n","o","p","q","r","s","t","u","v","w","x","y","z">>

Digits == <<"0","1","2","3","4","5","6","7","8","9">>

\* ASCII code of a one-character string of the model's alphabet.
Ord(c) ==
  IF \E i \in 1..26 : Letters[i] = c THEN 96 + (CHOOSE i \in 1..26 : Letters[i] = c)
  ELSE IF \E i \in 1..10 : Digits[i] = c THEN 47 + (CHOOSE i \in 1..10 : Digits[i] = c)
  ELSE CASE c = " "  -> 32
         [] c = "\n" -> 10
         [] c = "\r" -> 13
         [] c = "#"  -> 35
         [] c = "("  -> 40
         [] c = ")"  -> 41
         [] c = "*"  -> 42
         [] c = "+"  -> 43
         [] c = ","  -> 44
         [] c = "-"  -> 45
         [] c = "."  -> 46
         [] c = ";"  -> 59
         [] c = "<"  -> 60
         [] c = "_"  -> 95

\* A text written as a tuple of one-character strings, as a sequence of codes.
Enc(s) == [i \in 1..Len(s) |-> Ord(s[i])]

EOF == -1

tok_eof == -1

tok_def == -2

tok_extern == -3

tok_identifier == -4

tok_number == -5

\* <cctype> classification in the "C" locale; all are false of EOF.
isspace(c) == c \in {9, 10, 11, 12, 13, 32}

isalpha(c) == c \in (65..90) \cup (97..122)

isdigit(c) == c \in 48..57

isalnum(c) == isalpha(c) \/ isdigit(c)

isascii(c) == c \in 0..127

\* ------------------------------------------------------------------------
\* Lexer.  The lexer works on a record holding the globals it reads and
\* writes: inp (what getchar() has not yet returned of stdin), LastChar,
\* IdentifierStr, NumVal; the parser adds CurTok, the diagnostics written
\* by LogError (log) and the number of gettok calls made (ntok).
\* ------------------------------------------------------------------------

\* LastChar = getchar();
Advance(L) ==
  IF L.inp = <<>> THEN [L EXCEPT !.LastChar = EOF]
  ELSE [L EXCEPT !.LastChar = Head(L.inp), !.inp = Tail(L.inp)]

RECURSIVE SkipSpaces(_)
\* while (std::isspace(LastChar)) LastChar = getchar();
SkipSpaces(L) == IF isspace(L.LastChar) THEN SkipSpaces(Advance(L)) ELSE L

RECURSIVE ReadIdentifier(_)
\* while (std::isalnum(LastChar = getchar())) IdentifierStr += LastChar;
ReadIdentifier(L) ==
  LET A == Advance(L) IN
  IF isalnum(A.LastChar)
  THEN ReadIdentifier([A EXCEPT !.IdentifierStr = Append(@, A.LastChar)])
  ELSE A

\* The int value of the C expression  (LastChar) || LastChar == '.'
LogicalOr(c) == IF c # 0 \/ c = 46 THEN 1 ELSE 0

\* std::isdigit((LastChar) || LastChar == '.'): isdigit of the 0/1 above.
NumStart(c) == isdigit(LogicalOr(c))

RECURSIVE DigitRun(_, _)
\* Index of the last digit of the run of digits of s starting at i (i-1 if none).
DigitRun(s, i) ==
  IF i <= Len(s) /\ isdigit(s[i]) THEN DigitRun(s, i + 1) ELSE i - 1

RECURSIVE DigitsValue(_)
DigitsValue(s) ==
  IF s = <<>> THEN 0 ELSE 10 * DigitsValue(SubSeq(s, 1, Len(s) - 1)) + (s[Len(s)] - 48)

RECURSIVE NormDouble(_)
\* A double as mantissa m and decimal exponent e (value m / 10^e), normalised.
NormDouble(v) ==
  IF v.e > 0 /\ v.m % 10 = 0 THEN NormDouble([m |-> v.m \div 10, e |-> v.e - 1]) ELSE v

\* std::strtod on a string of digits and dots: the longest prefix of the form
\* digits [ '.' digits ] is converted, the rest is ignored; no digits gives 0.
strtod(s) ==
  LET i1 == DigitRun(s, 1)
      dot == i1 + 1 <= Len(s) /\ s[i1 + 1] = 46
      i2 == IF dot THEN DigitRun(s, i1 + 2) ELSE i1
      ds == IF dot THEN SubSeq(s, 1, i1) \o SubSeq(s, i1 + 2, i2) ELSE SubSeq(s, 1, i1)
  IN IF ds = <<>> THEN [m |-> 0, e |-> 0]
     ELSE NormDouble([m |-> DigitsValue(ds), e |-> IF dot THEN i2 - i1 - 1 ELSE 0])

RECURSIVE ReadNumber(_, _)
\* do { NumStr += LastChar; LastChar = getchar(); } while (isdigit(...));
\* NumVal = strtod(NumStr)
ReadNumber(L, NumStr) ==
  LET S == Append(NumStr, L.LastChar)
      A == Advance(L)
  IN IF NumStart(A.LastChar) THEN ReadNumber(A, S) ELSE [A EXCEPT !.NumVal = strtod(S)]

RECURSIVE SkipComment(_)
\* do LastChar = getchar(); while (LastChar != EOF && LastChar != '\n' && LastChar != '\r');
SkipComment(L) ==
  LET A == Advance(L) IN
  IF A.LastChar # EOF /\ A.LastChar # 10 /\ A.LastChar # 13 THEN SkipComment(A) ELSE A

kw_def == Enc(<<"d","e","f">>)

kw_extern == Enc(<<"e","x","t","e","r","n">>)

RECURSIVE gettok(_)

\* if (LastChar == EOF) return tok_eof;
\* int ThisChar = LastChar; LastChar = getchar(); return ThisChar;
EofOrChar(L) ==
  IF L.LastChar = EOF THEN [tok |-> tok_eof, L |-> L]
  ELSE [tok |-> L.LastChar, L |-> Advance(L)]

\* After the comment loop: if (LastChar != EOF) return gettok();
AfterComment(C) == IF C.LastChar # EOF THEN gettok(C) ELSE EofOrChar(C)

\* The keyword tests on the identifier just read.
IdentifierTok(I) ==
  [tok |-> IF I.IdentifierStr = kw_def THEN tok_def
           ELSE IF I.IdentifierStr = kw_extern THEN tok_extern
           ELSE tok_identifier,
   L |-> I]

\* gettok() after the leading spaces are skipped.
TokAt(L) ==
  IF isalpha(L.LastChar)
  THEN IdentifierTok(ReadIdentifier([L EXCEPT !.IdentifierStr = <<L.LastChar>>]))
  ELSE IF NumStart(L.LastChar) THEN [tok |-> tok_number, L |-> ReadNumber(L, <<>>)]
  ELSE IF L.LastChar = 35 THEN AfterComment(SkipComment(L))
  ELSE EofOrChar(L)

\* One call of gettok(): [tok |-> the int returned, L |-> the globals after].
gettok(L0) == TokAt(SkipSpaces(L0))

\* CurTok = (the value gettok() returned)
SetCurTok(g) == [g.L EXCEPT !.CurTok = g.tok, !.ntok = @ + 1]

\* static int getNextTok() { return CurTok = gettok(); }
getNextTok(P) == SetCurTok(gettok(P))

\* ------------------------------------------------------------------------
\* AST.  A std::unique_ptr<...> is either Null or the node it owns.
\* ------------------------------------------------------------------------
Null == [k |-> "null"]

NumberExprAST(v) == [k |-> "Number", Val |-> v]

VariableExprAST(name) == [k |-> "Variable", Name |-> name]

BinaryExprAST(op, lhs, rhs) == [k |-> "Binary", Op |-> op, LHS |-> lhs, RHS |-> rhs]

CallExprAST(callee, args) == [k |-> "Call", Callee |-> callee, Args |-> args]

PrototypeAST(name, args) == [k |-> "Prototype", Name |-> name, Args |-> args]

FunctionAST(proto, body) == [k |-> "Function", Proto |-> proto, Body |-> body]

\* ------------------------------------------------------------------------
\* Parser.  Every Parse* operator takes the globals P and gives
\* [r |-> the pointer returned, P |-> the globals after].
\* ------------------------------------------------------------------------

\* BinopPrecedence as main() fills it; operator[] gives 0 for any other key.
BinopPrecedence(c) ==
  CASE c = 60 -> 10
    [] c = 43 -> 20
    [] c = 45 -> 20
    [] c = 42 -> 40
    [] OTHER -> 0

GetTokPrecedence(CurTok) ==
  IF ~isascii(CurTok) THEN -1
  ELSE IF BinopPrecedence(CurTok) <= 0 THEN -1
  ELSE BinopPrecedence(CurTok)

\* LogError / LogErrorP / LogErrorV: print the message; the caller gets nullptr.
LogError(P, Str) == [P EXCEPT !.log = Append(@, Str)]

ParseNumberExpr(P) == [r |-> NumberExprAST(P.NumVal), P |-> getNextTok(P)]

RECURSIVE ParseExpression(_)
RECURSIVE ParseArgs(_, _)
RECURSIVE ParseBinOpRHS(_, _, _)

\* ParseParenExpr once V = ParseExpression() is back.
ParenClose(V) ==
  IF V.r = Null THEN [r |-> Null, P |-> V.P]
  ELSE IF V.P.CurTok # 41 THEN [r |-> Null, P |-> LogError(V.P, "Expected ')'")]
  ELSE [r |-> V.r, P |-> getNextTok(V.P)]

ParseParenExpr(P) == ParenClose(ParseExpression(getNextTok(P)))

\* The argument loop once Arg = ParseExpression() is back.
ArgsNext(A, Args) ==
  IF A.r = Null THEN [ok |-> FALSE, Args |-> Args, P |-> A.P]
  ELSE IF A.P.CurTok = 41 THEN [ok |-> TRUE, Args |-> Append(Args, A.r), P |-> A.P]
  ELSE IF A.P.CurTok # 44
  THEN [ok |-> FALSE, Args |-> Args,
        P |-> LogError(A.P, "Expected ')' or ',' in the argument list")]
  ELSE ParseArgs(getNextTok(A.P), Append(Args, A.r))

\* The while (true) loop of ParseIdentifierExpr, entered with CurTok != ')':
\* [ok, Args, P]; on ok CurTok is the closing ')'.
ParseArgs(P, Args) == ArgsNext(ParseExpression(P), Args)

\* getNextTok(); // eat )    return std::make_unique<CallExprAST>(IdName, Args)
CallClose(IdName, A) ==
  IF ~A.ok THEN [r |-> Null, P |-> A.P]
  ELSE [r |-> CallExprAST(IdName, A.Args), P |-> getNextTok(A.P)]

\* After the '(' is eaten: if (CurTok != ')') the argument loop.
CallRest(IdName, P2) ==
  CallClose(IdName, IF P2.CurTok # 41 THEN ParseArgs(P2, <<>>)
                    ELSE [ok |-> TRUE, Args |-> <<>>, P |-> P2])

\* After the identifier is eaten: a variable, or a call.
IdentifierRest(IdName, P1) ==
  IF P1.CurTok # 40 THEN [r |-> VariableExprAST(IdName), P |-> P1]
  ELSE CallRest(IdName, getNextTok(P1))

ParseIdentifierExpr(P) == IdentifierRest(P.IdentifierStr, getNextTok(P))

\* switch (CurTok): the default label logs and then falls through into
\* case tok_number, there being no return or break after LogError.
ParsePrimary(P) ==
  IF P.CurTok = tok_number THEN ParseNumberExpr(P)
  ELSE IF P.CurTok = tok_identifier THEN ParseIdentifierExpr(P)
  ELSE IF P.CurTok = 40 THEN ParseParenExpr(P)
  ELSE ParseNumberExpr(LogError(P, "Unkown token while parsing!"))

\* RHS = ParseBinOpRHS(TokPrec + 1, std::move(LHS)) is back as I: LHS is the
\* moved-from (null) pointer when the BinaryExprAST is made.
BinOpAfterInner(ExprPrec, BinOp, I) ==
  IF I.r = Null THEN [r |-> Null, P |-> I.P]
  ELSE ParseBinOpRHS(ExprPrec, BinaryExprAST(BinOp, Null, I.r), I.P)

\* RHS = ParsePrimary() is back as R.  The recursive call is handed
\* std::move(LHS), not the RHS just parsed, which it then overwrites.
BinOpAfterPrimary(ExprPrec, TokPrec, BinOp, LHS, R) ==
  IF R.r = Null THEN [r |-> Null, P |-> R.P]
  ELSE IF TokPrec < GetTokPrecedence(R.P.CurTok)
  THEN BinOpAfterInner(ExprPrec, BinOp, ParseBinOpRHS(TokPrec + 1, LHS, R.P))
  ELSE ParseBinOpRHS(ExprPrec, BinaryExprAST(BinOp, LHS, R.r), R.P)

\* One pass of the while (true) loop, the next pass being the tail call.
ParseBinOpRHS(ExprPrec, LHS, P) ==
  IF GetTokPrecedence(P.CurTok) < ExprPrec THEN [r |-> LHS, P |-> P]
  ELSE BinOpAfterPrimary(ExprPrec, GetTokPrecedence(P.CurTok), P.CurTok, LHS,
                         ParsePrimary(getNextTok(P)))

\* ParseExpression once LHS = ParsePrimary() is back.
ExpressionRest(L) ==
  IF L.r = Null THEN [r |-> Null, P |-> L.P] ELSE ParseBinOpRHS(0, L.r, L.P)

ParseExpression(P) == ExpressionRest(ParsePrimary(P))

RECURSIVE ParseArgNames(_, _)

\* The test of while (getNextTok() == tok_identifier), N being the globals after it.
ArgNamesNext(N, ArgNames) ==
  IF N.CurTok = tok_identifier THEN ParseArgNames(N, Append(ArgNames, N.IdentifierStr))
  ELSE [ArgNames |-> ArgNames, P |-> N]

\* while (getNextTok() == tok_identifier) ArgNames.push_back(IdentifierStr);
ParseArgNames(P, ArgNames) == ArgNamesNext(getNextTok(P), ArgNames)

\* After the parameter loop: the ')' and the PrototypeAST.
PrototypeClose(Fname, A) ==
  IF A.P.CurTok # 41
  THEN [r |-> Null, P |-> LogError(A.P, "Expected ')' name in prototype")]
  ELSE [r |-> PrototypeAST(Fname, A.ArgNames), P |-> getNextTok(A.P)]

\* After the function name is eaten: the '(' and the parameter loop.
PrototypeRest(Fname, P1) ==
  IF P1.CurTok # 40
  THEN [r |-> Null, P |-> LogError(P1, "Expected '(' name in prototype")]
  ELSE PrototypeClose(Fname, ParseArgNames(P1, <<>>))

ParsePrototype(P) ==
  IF P.CurTok # tok_identifier
  THEN [r |-> Null, P |-> LogError(P, "Expected fucntion name in prototype")]
  ELSE PrototypeRest(P.IdentifierStr, getNextTok(P))

\* The FunctionAST made of Proto and the body E, or nullptr.
MakeFunction(Proto, E) ==
  IF E.r # Null THEN [r |-> FunctionAST(Proto, E.r), P |-> E.P]
  ELSE [r |-> Null, P |-> E.P]

\* ParseDefinition once Proto = ParsePrototype() is back.
DefinitionBody(Proto) ==
  IF Proto.r = Null THEN [r |-> Null, P |-> Proto.P]
  ELSE MakeFunction(Proto.r, ParseExpression(Proto.P))

ParseDefinition(P) == DefinitionBody(ParsePrototype(getNextTok(P)))

ParseExtern(P) == ParsePrototype(getNextTok(P))

\* "__anon_expr"
AnonName == Enc(<<"_","_","a","n","o","n","_","e","x","p","r">>)

ParseTopLevelExpr(P) == MakeFunction(PrototypeAST(AnonName, <<>>), ParseExpression(P))

\* ------------------------------------------------------------------------
\* IR.  A Value* is NullV, a constant, an argument of a function or an
\* instruction.  A Function is [id, name, args, blocks]: id is its identity
\* (the Function* handle), args the names of its arguments, blocks the list
\* of its basic blocks, each a sequence of instructions.  TheModule is the
\* list of the functions of the module, in creation order.
\* ------------------------------------------------------------------------
NullV == [vk |-> "null"]

\* What a call through a null std::unique_ptr may hand back when it returns.
Garbage == [vk |-> "garbage"]

ConstantFP(v) == [vk |-> "const", Val |-> v]

ArgValue(f, i) == [vk |-> "arg", fn |-> f, idx |-> i]

NullF == [id |-> 0, name |-> <<>>, args |-> <<>>, blocks |-> <<>>]

\* Module::getFunction(Name): the function of exactly this name, or nullptr.
getFunction(fns, Name) ==
  IF \E i \in 1..Len(fns) : fns[i].name = Name
  THEN fns[CHOOSE i \in 1..Len(fns) : fns[i].name = Name]
  ELSE NullF

RECURSIVE Decimal(_)
Decimal(n) == IF n < 10 THEN <<48 + n>> ELSE Append(Decimal(n \div 10), 48 + (n % 10))

RECURSIVE makeUniqueName(_, _, _, _)
\* ValueSymbolTable::makeUniqueName: Base, then `sep` (a '.' for a global
\* value, nothing for a local one) and the next value of the table's
\* LastUnique counter, until the name is free: [name, lu].
makeUniqueName(taken, Base, sep, lu) ==
  LET cand == Base \o sep \o Decimal(lu + 1) IN
  IF cand \in taken THEN makeUniqueName(taken, Base, sep, lu + 1)
  ELSE [name |-> cand, lu |-> lu + 1]

\* The name a value gets in a symbol table where `taken` are in use.
setName(taken, Name, sep, lu) ==
  IF Name \in taken THEN makeUniqueName(taken, Name, sep, lu) ELSE [name |-> Name, lu |-> lu]

RECURSIVE NameArgs(_, _, _)
\* for (auto &Arg : F->args()) Arg.setName(Args[Idx++]);
NameArgs(Args, named, lu) ==
  IF Len(named) = Len(Args) THEN named
  ELSE LET n == setName({named[i] : i \in 1..Len(named)}, Args[Len(named) + 1], <<>>, lu)
       IN NameArgs(Args, Append(named, n.name), n.lu)

\* PrototypeAST::codegen on the module state G = [fns, LastUnique, nextId]:
\* Function::Create always makes a new function and adds it to the module,
\* whose symbol table renames it when the name is taken.
PrototypeCodegen(Proto, G) ==
  LET n == setName({G.fns[i].name : i \in 1..Len(G.fns)}, Proto.Name, <<46>>, G.LastUnique)
      F == [id |-> G.nextId, name |-> n.name, args |-> NameArgs(Proto.Args, <<>>, 0),
            blocks |-> <<>>]
  IN [F |-> F,
      G |-> [G EXCEPT !.fns = Append(@, F), !.LastUnique = n.lu, !.nextId = @ + 1]]

\* ------------------------------------------------------------------------
\* Lowering of expressions.  C = [NamedValues, log, events, instrs, crashed]:
\* the NamedValues map, the diagnostics printed, the codegen calls entered
\* and left (by the path of the node under the body), the instructions the
\* Builder has inserted, and whether the process has died.  M is the module's
\* function list; ub is what a call through a null pointer does.
\* ------------------------------------------------------------------------
UBOutcomes == {"crash", "null", "value"}

Enter(C, path) == [C EXCEPT !.events = Append(@, [e |-> "enter", at |-> path])]

Exit(C, path, v) ==
  [v |-> v, C |-> [C EXCEPT !.events = Append(@, [e |-> "exit", at |-> path, ok |-> v # NullV])]]

LogErrorV(C, Str) == [C EXCEPT !.log = Append(@, Str)]

Emit(C, inst) == [C EXCEPT !.instrs = Append(@, inst)]

\* ptr->codegen() with ptr == nullptr: undefined behaviour.
NullDeref(C, ub) ==
  CASE ub = "crash" -> [v |-> NullV, C |-> [C EXCEPT !.crashed = TRUE]]
    [] ub = "null"  -> [v |-> NullV, C |-> C]
    [] ub = "value" -> [v |-> Garbage, C |-> C]

NumberCodegen(node, path, C) == Exit(C, path, ConstantFP(node.Val))

\* Value *V = NamedValues[Name]: operator[] inserts a null entry if absent.
VariableCodegen(node, path, C) ==
  LET V == IF node.Name \in DOMAIN C.NamedValues THEN C.NamedValues[node.Name] ELSE NullV
      C1 == IF node.Name \in DOMAIN C.NamedValues THEN C
            ELSE [C EXCEPT !.NamedValues = (node.Name :> NullV) @@ @]
  IN Exit(IF V = NullV THEN LogErrorV(C1, "Unkown variable name!") ELSE C1, path, V)

RECURSIVE codegen(_, _, _, _, _)
RECURSIVE CodegenArgs(_, _, _, _, _, _)

\* A BinaryExprAST::codegen that returned as soon as L is null.
LowerRHS_ShortCircuit(node, path, Lr, M, ub) ==
  IF Lr.v = NullV THEN [v |-> NullV, C |-> Lr.C]
  ELSE codegen(node.RHS, Append(path, 2), Lr.C, M, ub)

\* Value *R = RHS->codegen();  Lr is what LHS->codegen() gave.
LowerRHS(node, path, Lr, M, ub) == codegen(node.RHS, Append(path, 2), Lr.C, M, ub)

\* switch (Op) of BinaryExprAST::codegen, L and R being non-null.
BinaryInstr(Op, L, R, path, C) ==
  CASE Op = 43 -> LET i == [vk |-> "inst", op |-> "fadd", L |-> L, R |-> R, at |-> path]
                  IN Exit(Emit(C, i), path, i)
    [] Op = 45 -> LET i == [vk |-> "inst", op |-> "fsub", L |-> L, R |-> R, at |-> path]
                  IN Exit(Emit(C, i), path, i)
    [] Op = 42 -> LET i == [vk |-> "inst", op |-> "fmul", L |-> L, R |-> R, at |-> path]
                  IN Exit(Emit(C, i), path, i)
    [] Op = 60 -> LET c == [vk |-> "inst", op |-> "fcmp ult", L |-> L, R |-> R, at |-> path]
                      i == [vk |-> "inst", op |-> "uitofp", L |-> c, R |-> NullV, at |-> path]
                  IN Exit(Emit(Emit(C, c), i), path, i)
    [] OTHER -> Exit(LogErrorV(C, "invalid binary operator!"), path, NullV)

\* if (!L || !R) return nullptr;  then the switch (Op).
BinaryAfterRHS(node, path, L, Rr) ==
  IF Rr.C.crashed THEN Rr
  ELSE IF L = NullV \/ Rr.v = NullV THEN Exit(Rr.C, path, NullV)
  ELSE BinaryInstr(node.Op, L, Rr.v, path, Rr.C)

\* BinaryExprAST::codegen once L = LHS->codegen() is back as Lr.
BinaryAfterLHS(node, path, Lr, M, ub) ==
  IF Lr.C.crashed THEN Lr ELSE BinaryAfterRHS(node, path, Lr.v, LowerRHS(node, path, Lr, M, ub))

BinaryCodegen(node, path, C, M, ub) ==
  BinaryAfterLHS(node, path, codegen(node.LHS, Append(path, 1), C, M, ub), M, ub)

\* A CallExprAST::codegen without the check of the argument count.
ArgCountMismatch_Unchecked(CalleeF, Args) == FALSE

\* CalleeF->arg_size() != Args.size()
ArgCountMismatch(CalleeF, Args) == Len(CalleeF.args) # Len(Args)

\* ArgsV.push_back(i->codegen()) is back as A: if (!ArgsV.back()) return nullptr;
ArgsAfter(node, path, ArgsV, A, M, ub) ==
  IF A.C.crashed \/ A.v = NullV THEN [ok |-> FALSE, ArgsV |-> ArgsV, C |-> A.C]
  ELSE CodegenArgs(node, path, Append(ArgsV, A.v), A.C, M, ub)

\* for (auto &i : Args) { ArgsV.push_back(i->codegen()); ... }
CodegenArgs(node, path, ArgsV, C, M, ub) ==
  IF Len(ArgsV) = Len(node.Args) THEN [ok |-> TRUE, ArgsV |-> ArgsV, C |-> C]
  ELSE ArgsAfter(node, path, ArgsV,
                 codegen(node.Args[Len(ArgsV) + 1], Append(path, Len(ArgsV) + 1), C, M, ub),
                 M, ub)

\* return Builder->CreateCall(CalleeF, ArgsV, "calltmp"), the loop being left as A.
CallAfterArgs(CalleeF, path, A) ==
  IF A.C.crashed THEN [v |-> NullV, C |-> A.C]
  ELSE IF ~A.ok THEN Exit(A.C, path, NullV)
  ELSE Exit(Emit(A.C, [vk |-> "inst", op |-> "call", callee |-> CalleeF.id,
                       args |-> A.ArgsV, at |-> path]),
            path,
            [vk |-> "inst", op |-> "call", callee |-> CalleeF.id,
             args |-> A.ArgsV, at |-> path])

\* CallExprAST::codegen, CalleeF being TheModule->getFunction(Callee).
CallResolved(CalleeF, node, path, C, M, ub) ==
  IF CalleeF = NullF THEN Exit(LogErrorV(C, "Unkown function referenced!"), path, NullV)
  ELSE IF ArgCountMismatch(CalleeF, node.Args)
  THEN Exit(LogErrorV(C, "Incorrect argument number!"), path, NullV)
  ELSE CallAfterArgs(CalleeF, path, CodegenArgs(node, path, <<>>, C, M, ub))

CallCodegen(node, path, C, M, ub) ==
  CallResolved(getFunction(M, node.Callee), node, path, C, M, ub)

\* node->codegen(): virtual dispatch on the node, or a null dereference.
codegen(node, path, C, M, ub) ==
  IF node = Null THEN NullDeref(C, ub)
  ELSE CASE node.k = "Number"   -> NumberCodegen(node, path, Enter(C, path))
         [] node.k = "Variable" -> VariableCodegen(node, path, Enter(C, path))
         [] node.k = "Binary"   -> BinaryCodegen(node, path, Enter(C, path), M, ub)
         [] node.k = "Call"     -> CallCodegen(node, path, Enter(C, path), M, ub)

\* ------------------------------------------------------------------------
\* Lowering of functions
\* ------------------------------------------------------------------------
EraseOutcomes == {"abort", "dangling"}

\* A call instruction of another function of the module still uses function f.
HasUses(fns, f) ==
  \E i \in 1..Len(fns) :
    /\ fns[i].id # f
    /\ \E b \in 1..Len(fns[i].blocks) : \E j \in 1..Len(fns[i].blocks[b]) :
         fns[i].blocks[b][j].op = "call" /\ fns[i].blocks[b][j].callee = f

\* The function list without function f.
RemoveFunction(fns, f) == SelectSeq(fns, LAMBDA F : F.id # f)

\* The function list with the block `instrs` appended to function f.
AppendBlock(fns, f, instrs) ==
  [i \in 1..Len(fns) |->
     IF fns[i].id = f THEN [fns[i] EXCEPT !.blocks = Append(@, instrs)] ELSE fns[i]]

\* NamedValues.clear(); for (auto &Arg : TheFunction->args())
\*   NamedValues[std::string(Arg.getName())] = &Arg;
ResetNamedValues(TheFunction) ==
  [n \in {TheFunction.args[i] : i \in 1..Len(TheFunction.args)} |->
     ArgValue(TheFunction.id,
              CHOOSE i \in 1..Len(TheFunction.args) : TheFunction.args[i] = n)]

\* TheModule->getFunction(Proto->getName()), else Proto->codegen().
ResolveFunction(Proto, G) ==
  IF getFunction(G.fns, Proto.Name) # NullF
  THEN [F |-> getFunction(G.fns, Proto.Name), G |-> G]
  ELSE PrototypeCodegen(Proto, G)

\* TheFunction->eraseFromParent() on a failed body.  Destroying a function
\* that other functions still call is undefined: an assertion stops the
\* process, or the callers are left with a dangling callee.
EraseFromParent(G, f, eub) ==
  IF HasUses(G.fns, f) /\ eub = "abort" THEN [G EXCEPT !.crashed = TRUE]
  ELSE [G EXCEPT !.fns = RemoveFunction(@, f),
                 !.dangling = @ \/ HasUses(G.fns, f)]

\* What FunctionAST::codegen gives: [ret |-> the id of the function returned
\* or 0 for nullptr, F |-> the id of TheFunction, nv |-> NamedValues when
\* Body->codegen() is called, M |-> the module's functions then, events and
\* instrs |-> of the body, G |-> after].
Lowered(ret, F, nv, M, B, G) ==
  [ret |-> ret, F |-> F, nv |-> nv, M |-> M, events |-> B.C.events, instrs |-> B.C.instrs,
   G |-> G]

\* The globals once the body is lowered.
AfterBody(G, B) == [G EXCEPT !.NamedValues = B.C.NamedValues, !.log = B.C.log]

\* Builder->CreateRet(RetVal)
RetInstr(v) == [vk |-> "inst", op |-> "ret", L |-> v, R |-> NullV, at |-> <<>>]

\* FunctionAST::codegen once Body->codegen() is back as B: the return
\* instruction on success, eraseFromParent() on failure.
FinishFunction(F, nv, B, G, eub) ==
  IF B.C.crashed
  THEN Lowered(0, F, nv, G.fns, B,
               [G EXCEPT !.crashed = TRUE, !.fns = AppendBlock(@, F, B.C.instrs)])
  ELSE IF B.v # NullV
  THEN Lowered(F, F, nv, G.fns, B,
               [G EXCEPT !.fns = AppendBlock(@, F, Append(B.C.instrs, RetInstr(B.v)))])
  ELSE Lowered(0, F, nv, G.fns, B, EraseFromParent(G, F, eub))

\* NamedValues and the log are globals: the body's changes to them stay.
FinishBody(F, nv, B, G, eub) == FinishFunction(F, nv, B, AfterBody(G, B), eub)

\* The context Body->codegen() starts in.
BodyContext(nv, G) ==
  [NamedValues |-> nv, log |-> G.log, events |-> <<>>, instrs |-> <<>>, crashed |-> FALSE]

\* The entry block, the NamedValues of TheFunction, and the body.
LowerBody(Body, TheFunction, nv, G, ub) ==
  codegen(Body, <<>>, BodyContext(nv, G), AppendBlock(G.fns, TheFunction.id, <<>>), ub)

\* FunctionAST::codegen once TheFunction is resolved, R = [F, G].
LowerResolved(Fn, R, ub, eub) ==
  FinishBody(R.F.id, ResetNamedValues(R.F),
             LowerBody(Fn.Body, R.F, ResetNamedValues(R.F), R.G, ub), R.G, eub)

\* FunctionAST::codegen on G = [fns, LastUnique, nextId, NamedValues, log,
\* crashed, dangling].
FunctionCodegen(Fn, G, ub, eub) == LowerResolved(Fn, ResolveFunction(Fn.Proto, G), ub, eub)

\* ------------------------------------------------------------------------
\* The program: main() and MainLoop()
\* ------------------------------------------------------------------------
VARIABLES
  pc,             \* "start", "loop" (at the switch of MainLoop), "crashed" (inside
                  \* a handler), "returned" (from MainLoop), "done", "aborted"
  src,            \* the whole of stdin
  inp,            \* what getchar() has not yet returned of it
  LastChar, IdentifierStr, NumVal, CurTok,
  log,            \* the messages LogError has printed
  ntok,           \* the number of calls of gettok made
  TheModule,      \* the functions of the module
  LastUnique,     \* the counter of the module's symbol table
  nextId,         \* the identity the next function created gets
  NamedValues,
  dangling,       \* a call instruction refers to a destroyed function
  out,            \* the IR artifacts printed by the handlers, in order
  last,           \* what the last step parsed and lowered
  toks,           \* the ints returned by the calls of gettok (lexer alone)
  pres            \* the result of the parse function applied (parser alone)

vars == <<pc, src, inp, LastChar, IdentifierStr, NumVal, CurTok, log, ntok, TheModule,
          LastUnique, nextId, NamedValues, dangling, out, last, toks, pres>>

\* The number of top-level constructs of an input.
MaxConstructs == 3

\* The source texts the inputs are made of.
Fragments ==
  { <<"e","x","t","e","r","n"," ","f","(","a",")">>,
    <<"e","x","t","e","r","n"," ","f","(","a"," ","b",")">>,
    <<"d","e","f"," ","f","(","a",")"," ","a">>,
    <<"d","e","f"," ","f","(","b",")"," ","b">>,
    <<"d","e","f"," ","g","(","a",")"," ","b","+","f","(","a",")">>,
    <<"d","e","f"," ","g","(","a"," ","a",")"," ","f","(","a","1",")","*","a">>,
    <<"f","(","1",")">>,
    <<"f","(","g","(","1",")",",","1",")">>,
    <<"1">>,
    <<"a","+","b","*","c">>,
    <<";">>,
    <<"f","(">> }

RECURSIVE Join(_)
Join(fs) == IF fs = <<>> THEN <<>> ELSE Enc(Head(fs)) \o <<32>> \o Join(Tail(fs))

Inputs == {Join(fs) : fs \in UNION {[1..n -> Fragments] : n \in 0..MaxConstructs}}

NoLast ==
  [kind |-> "none", parsed |-> Null, before |-> <<>>, F |-> 0, ret |-> 0, nv |-> <<>>,
   M |-> <<>>, events |-> <<>>, instrs |-> <<>>, log0 |-> 0, out0 |-> 0, ntok0 |-> 0, tok0 |-> 0,
   crashed |-> FALSE]

\* The globals of the lexer and the parser, as the record the operators take.
PS ==
  [inp |-> inp, LastChar |-> LastChar, IdentifierStr |-> IdentifierStr, NumVal |-> NumVal,
   CurTok |-> CurTok, log |-> log, ntok |-> ntok]

SetPS(P) ==
  /\ inp' = P.inp
  /\ LastChar' = P.LastChar
  /\ IdentifierStr' = P.IdentifierStr
  /\ NumVal' = P.NumVal
  /\ CurTok' = P.CurTok
  /\ ntok' = P.ntok

\* The globals of the lowering, with the log as the parser left it.
GS(P) ==
  [fns |-> TheModule, LastUnique |-> LastUnique, nextId |-> nextId,
   NamedValues |-> NamedValues, log |-> P.log, crashed |-> FALSE, dangling |-> dangling]

SetGS(G) ==
  /\ TheModule' = G.fns
  /\ LastUnique' = G.LastUnique
  /\ nextId' = G.nextId
  /\ NamedValues' = G.NamedValues
  /\ log' = G.log
  /\ dangling' = G.dangling
  /\ pc' = IF G.crashed THEN "crashed" ELSE "loop"

StartState(input, at) ==
  /\ pc = at
  /\ src = input
  /\ inp = input
  /\ LastChar = 32
  /\ IdentifierStr = <<>>
  /\ NumVal = [m |-> 0, e |-> 0]
  /\ CurTok = 0
  /\ log = <<>>
  /\ ntok = 0
  /\ TheModule = <<>>
  /\ LastUnique = 0
  /\ nextId = 1
  /\ NamedValues = <<>>
  /\ dangling = FALSE
  /\ out = <<>>
  /\ last = NoLast
  /\ toks = <<>>
  /\ pres = Null

Init == \E input \in Inputs : StartState(input, "start")

\* What a handler records of its step.
Record(kind, parsed, L) ==
  [kind |-> kind, parsed |-> parsed, before |-> TheModule, F |-> L.F, ret |-> L.ret,
   nv |-> L.nv, M |-> L.M, events |-> L.events, instrs |-> L.instrs, log0 |-> Len(log),
   out0 |-> Len(out), ntok0 |-> ntok, tok0 |-> CurTok, crashed |-> L.G.crashed]

NotLowered(G) ==
  [F |-> 0, ret |-> 0, nv |-> <<>>, M |-> G.fns, events |-> <<>>, instrs |-> <<>>, G |-> G]

\* FnIR->print(errs()): the artifact handed on for this construct.
Printed(kind, ret, G) ==
  IF ret = 0 THEN out
  ELSE Append(out, [kind |-> kind, id |-> ret,
                    fn |-> G.fns[CHOOSE i \in 1..Len(G.fns) : G.fns[i].id = ret]])

\* main() up to the call of MainLoop().
Main ==
  /\ pc = "start"
  /\ \E P \in {getNextTok(PS)} : SetPS(P)
  /\ pc' = "loop"
  /\ UNCHANGED <<src, log, TheModule, LastUnique, nextId, NamedValues, dangling, out, last,
                 toks, pres>>

\* case tok_eof: return;
MainLoopEof ==
  /\ pc = "loop"
  /\ CurTok = tok_eof
  /\ pc' = "returned"
  /\ UNCHANGED <<src, inp, LastChar, IdentifierStr, NumVal, CurTok, log, ntok, TheModule,
                 LastUnique, nextId, NamedValues, dangling, out, last, toks, pres>>

\* main() after MainLoop(): TheModule->print(errs(), nullptr); return 0;
\* Printing a module in which a call refers to a destroyed function reads
\* freed memory: it may print or abort.
MainPrint ==
  /\ pc = "returned"
  /\ \E o \in {"done", "aborted"} :
       /\ (o = "aborted") => dangling
       /\ pc' = o
  /\ UNCHANGED <<src, inp, LastChar, IdentifierStr, NumVal, CurTok, log, ntok, TheModule,
                 LastUnique, nextId, NamedValues, dangling, out, last, toks, pres>>

\* case ';': getNextTok();
SkipSemicolon ==
  /\ pc = "loop"
  /\ CurTok = 59
  /\ \E P \in {getNextTok(PS)} : SetPS(P)
  /\ last' = Record("semi", Null, NotLowered(GS(PS)))
  /\ UNCHANGED <<pc, src, log, TheModule, LastUnique, nextId, NamedValues, dangling, out,
                 toks, pres>>

\* if (auto *FnIR = FnAST->codegen()) { ...; FnIR->print(errs()); }, L being
\* what codegen() gave.
PrintLowered(kind, Fn, L) ==
  /\ SetPS(Fn.P)
  /\ SetGS(L.G)
  /\ out' = Printed(kind, L.ret, L.G)
  /\ last' = Record(kind, Fn.r, L)

\* else { getNextTok(); }: the parse failed and one token is skipped.
SkipToken(kind, Fn) ==
  /\ \E P \in {getNextTok(Fn.P)} : SetPS(P)
  /\ SetGS(GS(Fn.P))
  /\ out' = out
  /\ last' = Record(kind, Null, NotLowered(GS(Fn.P)))

\* A handler that parsed Fn (or failed to, Fn.r = Null) and lowers it.
HandleFunction(kind, Fn) ==
  IF Fn.r # Null
  THEN \E ub \in UBOutcomes, eub \in EraseOutcomes :
         \E L \in {FunctionCodegen(Fn.r, GS(Fn.P), ub, eub)} : PrintLowered(kind, Fn, L)
  ELSE SkipToken(kind, Fn)

HandleDefinition ==
  /\ pc = "loop"
  /\ CurTok = tok_def
  /\ \E FnAST \in {ParseDefinition(PS)} : HandleFunction("def", FnAST)
  /\ UNCHANGED <<src, toks, pres>>

\* What PrototypeAST::codegen gave, in the shape of a lowered function.
LoweredProto(L) == [NotLowered(L.G) EXCEPT !.F = L.F.id, !.ret = L.F.id]

\* HandleExtern once ProtoAST = ParseExtern() is back as Pr.
HandlePrototype(Pr) ==
  IF Pr.r # Null
  THEN \E L \in {LoweredProto(PrototypeCodegen(Pr.r, GS(Pr.P)))} :
         PrintLowered("extern", Pr, L)
  ELSE SkipToken("extern", Pr)

HandleExtern ==
  /\ pc = "loop"
  /\ CurTok = tok_extern
  /\ \E ProtoAST \in {ParseExtern(PS)} : HandlePrototype(ProtoAST)
  /\ UNCHANGED <<src, toks, pres>>

HandleTopLevelExpression ==
  /\ pc = "loop"
  /\ CurTok \notin {tok_eof, 59, tok_def, tok_extern}
  /\ \E FnAST \in {ParseTopLevelExpr(PS)} : HandleFunction("expr", FnAST)
  /\ UNCHANGED <<src, toks, pres>>

Next ==
  \/ Main
  \/ MainLoopEof
  \/ MainPrint
  \/ SkipSemicolon
  \/ HandleDefinition
  \/ HandleExtern
  \/ HandleTopLevelExpression

Spec == Init /\ [][Next]_vars

\* ------------------------------------------------------------------------
\* The lexer alone: successive calls of gettok() on an input.
\* ------------------------------------------------------------------------

\* The length of a lexer input.
MaxLexLen == 4

LexAlphabet == {Ord(c) : c \in {"1", "0", ".", "a", " ", "#", "\n"}}

LexInputs == UNION {[1..n -> LexAlphabet] : n \in 0..MaxLexLen}

LexInit == \E input \in LexInputs : StartState(input, "lex")

\* One more call, g being what gettok() gives.
TokReturned(g) ==
  /\ toks' = Append(toks, g.tok)
  /\ inp' = g.L.inp
  /\ LastChar' = g.L.LastChar
  /\ IdentifierStr' = g.L.IdentifierStr
  /\ NumVal' = g.L.NumVal
  /\ ntok' = ntok + 1

CallGettok ==
  /\ pc = "lex"
  /\ Len(toks) < Len(src) + 2
  /\ \E g \in {gettok(PS)} : TokReturned(g)
  /\ UNCHANGED <<pc, src, CurTok, log, TheModule, LastUnique, nextId, NamedValues, dangling,
                 out, last, pres>>

LexNext == CallGettok

SpecLex == LexInit /\ [][LexNext]_vars

\* ------------------------------------------------------------------------
\* The parser alone: main()'s first getNextTok(), then one parse function.
\* ------------------------------------------------------------------------

\* The primaries the expressions are made of: the text and the AST it stands for.
Primaries ==
  { [text |-> <<"a">>, ast |-> VariableExprAST(Enc(<<"a">>))],
    [text |-> <<"b","2">>, ast |-> VariableExprAST(Enc(<<"b","2">>))],
    [text |-> <<"(","c",")">>, ast |-> VariableExprAST(Enc(<<"c">>))],
    [text |-> <<"f","(","a",",","b",")">>,
     ast |-> CallExprAST(Enc(<<"f">>), <<VariableExprAST(Enc(<<"a">>)),
                                        VariableExprAST(Enc(<<"b">>))>>)] }

Operators == {"<", "+", "-", "*"}

\* The text p1 o1 p2 o2 p3.
Triple(p1, o1, p2, o2, p3) == Enc(p1.text \o <<o1>> \o p2.text \o <<o2>> \o p3.text)

\* Texts that start with a token no primary starts with, and the empty text.
OtherTexts ==
  { <<")">>, <<"+","a">>, <<",">>, <<";">>, <<"1">>, <<"d","e","f"," ","a">>,
    <<"e","x","t","e","r","n">>, <<>>, <<"a">>, <<"(","a",")">>, <<"(","a">> }

ParseInputs ==
  {Triple(p1, o1, p2, o2, p3) : p1 \in Primaries, o1 \in Operators, p2 \in Primaries,
                                o2 \in Operators, p3 \in Primaries}
  \cup {Enc(t) : t \in OtherTexts}

ParseInit == \E input \in ParseInputs : StartState(input, "parse")

\* The parse function fn was called with the globals P0 and gave R.
Parsed(fn, P0, R) ==
  /\ pres' = [fn |-> fn, tok0 |-> P0.CurTok, log0 |-> Len(P0.log), r |-> R.r]
  /\ SetPS(R.P)
  /\ log' = R.P.log
  /\ pc' = "parsed"
  /\ UNCHANGED <<src, TheModule, LastUnique, nextId, NamedValues, dangling, out, last, toks>>

CallParsePrimary ==
  /\ pc = "parse"
  /\ \E P0 \in {getNextTok(PS)} :
       \E R \in {ParsePrimary(P0)} : Parsed("ParsePrimary", P0, R)

CallParseExpression ==
  /\ pc = "parse"
  /\ \E P0 \in {getNextTok(PS)} :
       \E R \in {ParseExpression(P0)} : Parsed("ParseExpression", P0, R)

ParseNext == CallParsePrimary \/ CallParseExpression

SpecParse == ParseInit /\ [][ParseNext]_vars

\* ------------------------------------------------------------------------
\* Properties
\* ------------------------------------------------------------------------

\* C1: ParseExpression respects precedence and left-associativity: for any
\* three primaries, p1+p2*p3 parses to Binary(+, p1, Binary(*, p2, p3)),
\* p1*p2+p3 to Binary(+, Binary(*, p1, p2), p3) and p1-p2-p3 to
\* Binary(-, Binary(-, p1, p2), p3), with both children of every BinaryExpr
\* present and every primary in the tree exactly once.
C1_PrecedenceAndAssociativity ==
  (pc = "parsed" /\ pres.fn = "ParseExpression") =>
    \A p1 \in Primaries, p2 \in Primaries, p3 \in Primaries :
      /\ src = Triple(p1, "+", p2, "*", p3) =>
           pres.r = BinaryExprAST(43, p1.ast, BinaryExprAST(42, p2.ast, p3.ast))
      /\ src = Triple(p1, "*", p2, "+", p3) =>
           pres.r = BinaryExprAST(43, BinaryExprAST(42, p1.ast, p2.ast), p3.ast)
      /\ src = Triple(p1, "-", p2, "-", p3) =>
           pres.r = BinaryExprAST(45, BinaryExprAST(45, p1.ast, p2.ast), p3.ast)

\* A numeral: one or more decimal digits with at most one '.'.
IsNumeral(s) ==
  /\ s # <<>>
  /\ \A i \in 1..Len(s) : isdigit(s[i]) \/ s[i] = 46
  /\ \E i \in 1..Len(s) : isdigit(s[i])
  /\ Cardinality({i \in 1..Len(s) : s[i] = 46}) <= 1

\* C2: for an input that is a single numeral, the calls of gettok give one
\* tok_number for the whole numeral and then tok_eof; no digit or '.' of it
\* is returned as a raw character token.
C2_NumeralIsOneNumberToken ==
  (pc = "lex" /\ IsNumeral(src)) =>
    /\ Len(toks) >= 1 => toks[1] = tok_number
    /\ Len(toks) >= 2 => toks[2] = tok_eof

\* The functions of a name and arity in a function list.
Declared(fns, Proto) ==
  {i \in 1..Len(fns) : fns[i].name = Proto.Name /\ Len(fns[i].args) = Len(Proto.Args)}

\* C3: lowering an extern prototype when a function of that name and arity is
\* already in the module's table returns the existing function handle and
\* adds no entry to the table.
C3_ExternReusesHandle ==
  (last.kind = "extern" /\ last.parsed # Null /\ Declared(last.before, last.parsed) # {}) =>
    /\ \E i \in Declared(last.before, last.parsed) : last.before[i].id = last.ret
    /\ Len(TheModule) = Len(last.before)

\* No call so far referred to a function that was not declared.
NoForwardReference == \A i \in 1..Len(log) : log[i] # "Unkown function referenced!"

\* C4: for a sequence of constructs without a forward reference, no two
\* constructs lowered to a function body (def or bare expression) share one
\* function handle, and a later construct never adds to or replaces the body
\* an earlier one produced.
C4_NoFunctionTableCollision ==
  NoForwardReference =>
    \A i \in 1..Len(out), j \in 1..Len(out) :
      (i < j /\ out[i].kind # "extern" /\ out[j].kind # "extern") =>
        /\ out[i].id # out[j].id
        /\ \A k \in 1..Len(TheModule) :
             TheModule[k].id = out[i].id => TheModule[k].blocks = out[i].fn.blocks

\* The last step lowered a FunctionAST (a def or a bare expression).
LoweredFunction == last.kind \in {"def", "expr"} /\ last.parsed # Null

\* C6: when FunctionAST::codegen fails because the body fails to lower, the
\* module's function table is on return what it was before the lowering.
C6_FailedDefinitionRolledBack ==
  (LoweredFunction /\ last.ret = 0 /\ ~last.crashed) => TheModule = last.before

\* The parameter names of a prototype are pairwise distinct.
DistinctParams(Proto) ==
  \A i \in 1..Len(Proto.Args), j \in 1..Len(Proto.Args) :
    i # j => Proto.Args[i] # Proto.Args[j]

\* C8: when a Function is lowered, the keys of NamedValues at the moment the
\* body's lowering starts are exactly the parameter names of the Function's
\* own prototype, also when a function of that name was declared earlier.
C8_NamedValuesAreOwnParameters ==
  (LoweredFunction /\ DistinctParams(last.parsed.Proto)) =>
    DOMAIN last.nv = {last.parsed.Proto.Args[i] : i \in 1..Len(last.parsed.Proto.Args)}

\* C7: in primary position, a current token that is not a number literal, an
\* identifier or '(' makes ParsePrimary a parse failure: the diagnostic is
\* printed and the result is null, no AST node being built.
C7_OtherTokenIsParseFailure ==
  (pc = "parsed" /\ pres.fn = "ParsePrimary"
     /\ pres.tok0 \notin {tok_number, tok_identifier, 40}) =>
    /\ pres.r = Null
    /\ Len(log) > pres.log0

\* The node of the expression tree `node` at `path`: child 1 of a BinaryExpr
\* is its LHS and child 2 its RHS, child i of a CallExpr is its i-th argument.
RECURSIVE NodeAt(_, _)
NodeAt(node, path) ==
  IF path = <<>> THEN node
  ELSE IF node.k = "Binary"
  THEN NodeAt(IF Head(path) = 1 THEN node.LHS ELSE node.RHS, Tail(path))
  ELSE IF node.k = "Call" /\ Head(path) \in 1..Len(node.Args)
  THEN NodeAt(node.Args[Head(path)], Tail(path))
  ELSE Null

\* The handler's last step lowered the body of a function.
BodyLowered == last.kind \in {"def", "expr"} /\ last.parsed # Null

\* The j-th codegen event of the last body enters a CallExpr whose callee is
\* in the module with a parameter count other than the call's argument count.
MismatchedCallAt(j) ==
  /\ last.events[j].e = "enter"
  /\ NodeAt(last.parsed.Body, last.events[j].at).k = "Call"
  /\ getFunction(last.M, NodeAt(last.parsed.Body, last.events[j].at).Callee) # NullF
  /\ Len(getFunction(last.M, NodeAt(last.parsed.Body, last.events[j].at).Callee).args)
       # Len(NodeAt(last.parsed.Body, last.events[j].at).Args)

\* C5: a CallExpr whose argument count differs from the callee's parameter
\* count fails with a diagnostic before any argument is lowered: the call to
\* codegen returns failure at once, no codegen of an argument is entered, no
\* call instruction is created for it, the enclosing construct prints no
\* artifact and its function is not left in the module.
C5_ArgCountMismatchFailsFirst ==
  BodyLowered =>
    \A j \in 1..Len(last.events) :
      MismatchedCallAt(j) =>
        /\ j < Len(last.events)
        /\ last.events[j + 1] = [e |-> "exit", at |-> last.events[j].at, ok |-> FALSE]
        /\ \A k \in 1..Len(last.events) :
             Len(last.events[k].at) = Len(last.events[j].at) + 1 =>
               SubSeq(last.events[k].at, 1, Len(last.events[j].at)) # last.events[j].at
        /\ \E i \in (last.log0 + 1)..Len(log) : log[i] = "Incorrect argument number!"
        /\ \A i \in 1..Len(last.instrs) :
             ~(last.instrs[i].op = "call" /\ last.instrs[i].at = last.events[j].at)
        /\ last.ret = 0
        /\ Len(out) = last.out0
        /\ ~last.crashed => \A i \in 1..Len(TheModule) : TheModule[i].id # last.F

\* C5's case: a call with arguments to a declared function of another
\* parameter count was lowered, and the process went on.
C5_Witness ==
  /\ BodyLowered
  /\ ~last.crashed
  /\ \E j \in 1..Len(last.events) :
       /\ MismatchedCallAt(j)
       /\ Len(NodeAt(last.parsed.Body, last.events[j].at).Args) > 0

\* The j-th codegen event of the last body is the failed return of the
\* lowering of the LHS of a BinaryExpr.
LhsFailedAt(j) ==
  /\ last.events[j].e = "exit"
  /\ ~last.events[j].ok
  /\ Len(last.events[j].at) > 0
  /\ last.events[j].at[Len(last.events[j].at)] = 1
  /\ NodeAt(last.parsed.Body, SubSeq(last.events[j].at, 1, Len(last.events[j].at) - 1)).k
       = "Binary"

\* The path of the BinaryExpr whose LHS the j-th event is about.
BinaryOf(j) == SubSeq(last.events[j].at, 1, Len(last.events[j].at) - 1)

\* C9 as stated: a BinaryExpr lowers lhs first and rhs second, and a failure
\* of lhs propagates immediately: rhs is not lowered once lhs has failed.
C9_FailurePropagatesImmediately ==
  BodyLowered =>
    \A j \in 1..Len(last.events) :
      LhsFailedAt(j) =>
        \A k \in 1..Len(last.events) :
          ~(last.events[k].e = "enter" /\ last.events[k].at = Append(BinaryOf(j), 2))

\* C9 as the code has it: a BinaryExpr lowers lhs first and rhs second; when
\* lhs fails, rhs is lowered all the same, right after, and only then the
\* BinaryExpr returns failure, with no instruction of its own.
C9_FailurePropagatesAfterRhs ==
  BodyLowered =>
    /\ \A i, k \in 1..Len(last.events) :
         (/\ last.events[i].at # <<>>
          /\ last.events[k].at # <<>>
          /\ BinaryOf(i) = BinaryOf(k)
          /\ NodeAt(last.parsed.Body, BinaryOf(i)).k = "Binary"
          /\ last.events[i].at[Len(last.events[i].at)] = 1
          /\ last.events[k].at[Len(last.events[k].at)] = 2) => i < k
    /\ \A j \in 1..Len(last.events) :
         LhsFailedAt(j) =>
           /\ j < Len(last.events)
           /\ last.events[j + 1] = [e |-> "enter", at |-> Append(BinaryOf(j), 2)]
           /\ \A k \in 1..Len(last.events) :
                (last.events[k].e = "exit" /\ last.events[k].at = BinaryOf(j)) =>
                  (k > j + 1 /\ ~last.events[k].ok)
           /\ ~last.crashed =>
                \E k \in 1..Len(last.events) :
                  last.events[k] = [e |-> "exit", at |-> BinaryOf(j), ok |-> FALSE]
           /\ \A i \in 1..Len(last.instrs) : last.instrs[i].at # BinaryOf(j)

\* C9's case: the lhs of a BinaryExpr failed and its rhs went on to insert
\* an instruction.
C9_Witness ==
  /\ BodyLowered
  /\ \E j \in 1..Len(last.events) :
       /\ LhsFailedAt(j)
       /\ \E i \in 1..Len(last.instrs) : last.instrs[i].at = Append(BinaryOf(j), 2)

\* The process is in main() before MainLoop() or at the switch of MainLoop's
\* while (true): every case of the switch, the default included, takes a step.
InMainLoop == pc \in {"start", "loop"}

\* MainLoop() has seen tok_eof and returned.
MainLoopReturned == pc \in {"returned", "done", "aborted"}

\* C10: for every finite input the driver loop terminates by MainLoop seeing
\* tok_eof and returning: a run is never at an end inside the loop, that is,
\* in every state either the loop has another step to take or MainLoop has
\* returned.
C10_MainLoopReturns == InMainLoop \/ MainLoopReturned

====
